---- MODULE Spec2Model ----
(***************************************************************************)
(* Model of the hand-rolled JSON-RPC loop of src/src/server.py             *)
(* (ZoteroMCPServer): one line in on stdin, one line out on stdout, a      *)
(* dispatch on the method name, resource URIs resolved by string tests,    *)
(* tools validated by key presence, and a pyzotero client behind them;     *)
(* and of the client ZoteroMCPClient of src/integration_example.py, which  *)
(* starts the server as a child process and talks to it over its pipes.    *)
(***************************************************************************)
EXTENDS Integers, Sequences, FiniteSets, TLC

VARIABLES
    zot,          \* self.zot: "client" (a pyzotero object) or "None"
    jsonrpc_id,   \* self.jsonrpc_id: the id of the last request processed
    pc,           \* position of run(): "read" (awaiting a line) or "handle"
    cur,          \* request_line: the stripped line run() is handling
    stdin,        \* lines written by the caller and not read yet
    stdout,       \* response units printed so far, oldest first
    calls,        \* calls made on self.zot so far, oldest first
    received,     \* the lines run() has read so far, stripped, oldest first
    nsent,        \* number of lines the caller has written so far
    caller,       \* the caller's script: "session", "probe", "live", "lists" or "client"
    \* ZoteroMCPClient of src/integration_example.py and the processes it starts
    server_process,  \* self.server_process: NoProcess (None) or the pid held
    running,         \* the server processes that are alive
    nspawned,        \* number of processes started so far (pids are 1, 2, ...)
    client_pc,       \* "idle", or "write" inside _send_request after start_server
    ops,             \* number of calls made on the client so far
    written          \* the requests written so far: to which pid, and whether it was alive

\* the state of the server loop, and the state of the client
svars == <<zot, jsonrpc_id, pc, cur, stdin, stdout, calls, received, nsent, caller>>
cvars == <<server_process, running, nspawned, client_pc, ops, written>>
vars == <<zot, jsonrpc_id, pc, cur, stdin, stdout, calls, received, nsent, caller,
          server_process, running, nspawned, client_pc, ops, written>>

(***************************************************************************)
(* Bounds.                                                                 *)
(***************************************************************************)
MaxLines == 3     \* lines a session caller writes
MaxProbe == 1     \* lines a probe caller writes
MaxLive == 2      \* lines the caller of the fair specification writes
MaxLists == 2     \* lines a caller of the list methods writes
MaxOps == 4       \* calls made on a ZoteroMCPClient

(***************************************************************************)
(* JSON values (the values json.loads returns and json.dumps takes).       *)
(* A string is a sequence of tokens: "/" is a token of its own and every   *)
(* other token is a non-empty piece of text without "/".                   *)
(***************************************************************************)
Null == [k |-> "null"]
Str(toks) == [k |-> "str", s |-> toks]
S(word) == Str(<<word>>)
Num(n) == [k |-> "num", n |-> n]
Arr(seq) == [k |-> "arr", a |-> seq]
Obj(f) == [k |-> "obj", o |-> f]
EmptyObj == Obj(<<>>)

\* dict.get(key, default); raises AttributeError on anything but a dict.
CanGet(d) == d.k = "obj"
Get(d, key, default) == IF key \in DOMAIN d.o THEN d.o[key] ELSE default

\* Python truthiness of a JSON value.
Truthy(v) ==
    CASE v.k = "null" -> FALSE
      [] v.k = "str" -> v.s # <<>>
      [] v.k = "num" -> v.n # 0
      [] v.k = "arr" -> v.a # <<>>
      [] v.k = "obj" -> DOMAIN v.o # {}
      [] OTHER -> TRUE

(***************************************************************************)
(* Python str operations, on token sequences.                              *)
(***************************************************************************)
\* "/".join(segs): the string whose split("/") is segs ("" is an empty piece).
RECURSIVE Join(_)
Join(segs) ==
    IF segs = <<>> THEN <<>>
    ELSE LET h == IF Head(segs) = "" THEN <<>> ELSE <<Head(segs)>>
         IN  IF Len(segs) = 1 THEN h ELSE h \o <<"/">> \o Join(Tail(segs))

\* s.split("/"): the pieces between the "/" tokens, "" for an empty piece.
RECURSIVE SplitFrom(_, _)
SplitFrom(toks, piece) ==
    IF toks = <<>> THEN <<piece>>
    ELSE IF Head(toks) = "/" THEN <<piece>> \o SplitFrom(Tail(toks), "")
    ELSE SplitFrom(Tail(toks), Head(toks))
Split(toks) == SplitFrom(toks, "")

StartsWith(toks, prefix) ==
    Len(prefix) <= Len(toks) /\ SubSeq(toks, 1, Len(prefix)) = prefix
EndsWith(toks, suffix) ==
    Len(suffix) <= Len(toks)
    /\ SubSeq(toks, Len(toks) - Len(suffix) + 1, Len(toks)) = suffix
\* the Python test `sub in s`
Contains(toks, sub) ==
    \E i \in 1..(Len(toks) - Len(sub) + 1) : SubSeq(toks, i, i + Len(sub) - 1) = sub

\* parts[i] with Python's 0-based index; IndexError when out of range.
HasIndex(parts, i) == i + 1 <= Len(parts)
At(parts, i) == parts[i + 1]

(***************************************************************************)
(* The backend (pyzotero) as the handlers see it.  A handler's calls are   *)
(* numbered 1, 2, 3 in the order it makes them; oc.raiseAt is the number   *)
(* of the call that raises (0: none), oc.created tells whether            *)
(* create_items reports a created item.                                    *)
(***************************************************************************)
BackendOutcomes == [raiseAt : 0..3, created : BOOLEAN]

Call(op, args) == [op |-> op, args |-> args]
\* what a call that does not raise returns: data decided by the backend
BackendData(call) == [k |-> "data", of |-> call]
\* json.dumps(value, indent=2)
JsonDumps(value) == [k |-> "text", json |-> value]

\* outcome of a handler: it raised, or it returned `result` after `calls`
Raised(exc, made) == [raised |-> TRUE, exc |-> exc, result |-> Null, calls |-> made]
Returned(result, made) == [raised |-> FALSE, exc |-> Null, result |-> result, calls |-> made]

Message(text, arg) == [text |-> text, arg |-> arg]
ErrorBody(code, message) == [code |-> code, message |-> message]
\* the {"error": {...}} mapping a handler returns
HandlerError(code, message) == Obj([error |-> ErrorBody(code, message)])
NotInitialized ==
    HandlerError(-32000, Message("Zotero client not initialized. Check API credentials.", Null))

(***************************************************************************)
(* Resources: _handle_list_resources, _handle_list_resource_templates,     *)
(* _handle_read_resource.                                                  *)
(***************************************************************************)
Uri(segs) == Str(Join(segs))
\* a piece of a split string, as a Python str
Piece(p) == Str(IF p = "" THEN <<>> ELSE <<p>>)

UriCollections == Uri(<<"zotero:", "", "collections">>)
UriItemsTop == Uri(<<"zotero:", "", "items", "top">>)
UriItemsRecent == Uri(<<"zotero:", "", "items", "recent">>)
PrefixCollections == Join(<<"zotero:", "", "collections", "">>)   \* "zotero://collections/"
PrefixItems == Join(<<"zotero:", "", "items", "">>)               \* "zotero://items/"
SuffixItems == Join(<<"", "items">>)                              \* "/items"
InfixCitation == Join(<<"", "citation", "">>)                     \* "/citation/"

Descriptor(field, uri, name, mime, description) ==
    Obj([x \in {field, "name", "mimeType", "description"} |->
            CASE x = field -> uri
              [] x = "name" -> S(name)
              [] x = "mimeType" -> S(mime)
              [] OTHER -> S(description)])

HandleListResourcesOnRequest(params) ==
    IF CanGet(params)
    THEN Obj([resources |-> Arr(<<
            Descriptor("uri", UriCollections, "Zotero Collections", "application/json",
                       "List of collections in the Zotero library"),
            Descriptor("uri", UriItemsTop, "Top-Level Items", "application/json",
                       "Top-level items in the Zotero library"),
            Descriptor("uri", UriItemsRecent, "Recent Items", "application/json",
                       "Recently added or modified items in the Zotero library")>>)])
    ELSE Obj([resources |-> Arr(<<>>)])
HandleListResources(params) ==
    Obj([resources |-> Arr(<<
        Descriptor("uri", UriCollections, "Zotero Collections", "application/json",
                   "List of collections in the Zotero library"),
        Descriptor("uri", UriItemsTop, "Top-Level Items", "application/json",
                   "Top-level items in the Zotero library"),
        Descriptor("uri", UriItemsRecent, "Recent Items", "application/json",
                   "Recently added or modified items in the Zotero library")>>)])

HandleListResourceTemplates(params) ==
    Obj([resourceTemplates |-> Arr(<<
        Descriptor("uriTemplate", Uri(<<"zotero:", "", "collections", "{collection_key}", "items">>),
                   "Collection Items", "application/json",
                   "Items in a specific Zotero collection"),
        Descriptor("uriTemplate", Uri(<<"zotero:", "", "items", "{item_key}">>),
                   "Item Details", "application/json",
                   "Details of a specific Zotero item"),
        Descriptor("uriTemplate", Uri(<<"zotero:", "", "items", "{item_key}", "citation", "{style}">>),
                   "Item Citation", "text/plain",
                   "Citation for a specific Zotero item in a specific style")>>)])

ContentsEmpty(uri, mime, text) == Obj([contents |-> Arr(<<>>)])
\* {"contents": [{"uri": uri, "mimeType": mime, "text": text}]}
Contents(uri, mime, text) ==
    Obj([contents |-> Arr(<<Obj([uri |-> uri, mimeType |-> S(mime), text |-> text])>>)])

ReadError(exc) == HandlerError(-32000, Message("Error reading resource: ", exc))
BackendError == S("backend error")

\* one backend read and the contents built from it, inside the try block:
\* the call is the handler's first, so it raises when oc.raiseAt = 1
ReadVia(call, uri, mime, dumped, oc) ==
    IF oc.raiseAt = 1 THEN Returned(ReadError(BackendError), <<call>>)
    ELSE Returned(Contents(uri, mime,
                           IF dumped THEN JsonDumps(BackendData(call)) ELSE BackendData(call)),
                  <<call>>)

\* the arguments of the citation call, taken from uri.split("/")
CitationKey(parts) == At(parts, 2)
CitationStyle(parts) == At(parts, 4)
CollectionKey(parts) == At(parts, 2)
ItemKey(parts) == At(parts, 2)
\* the test that selects the item-details branch
IsItemUri(u) == StartsWith(u, PrefixItems) /\ Len(Split(u)) = 3

ReadResourceStaticsAfterTemplates(uri, oc) ==
    IF uri = UriCollections
        THEN ReadVia(Call("collections", <<>>), uri, "application/json", TRUE, oc)
    ELSE IF uri.k # "str"
        THEN Returned(ReadError(S("AttributeError")), <<>>)     \* uri.startswith on a non-str
    ELSE LET u == uri.s
             parts == Split(u)
         IN
         IF StartsWith(u, PrefixCollections) /\ EndsWith(u, SuffixItems)
             THEN IF ~HasIndex(parts, 2) THEN Returned(ReadError(S("IndexError")), <<>>)
                  ELSE ReadVia(Call("collection_items", [key |-> Piece(CollectionKey(parts))]),
                               uri, "application/json", TRUE, oc)
         ELSE IF StartsWith(u, PrefixItems) /\ Contains(u, InfixCitation)
             THEN IF ~HasIndex(parts, 4) THEN Returned(ReadError(S("IndexError")), <<>>)
                  ELSE ReadVia(Call("item", [key |-> Piece(CitationKey(parts)),
                                             format |-> S("citation"),
                                             style |-> Piece(CitationStyle(parts))]),
                               uri, "text/plain", FALSE, oc)
         ELSE IF StartsWith(u, PrefixItems) /\ Len(parts) = 4
             THEN ReadVia(Call("item", [key |-> Piece(At(parts, 3))]),
                          uri, "application/json", TRUE, oc)
         ELSE IF uri = UriItemsTop
             THEN ReadVia(Call("top", [limit |-> Num(50)]), uri, "application/json", TRUE, oc)
         ELSE IF uri = UriItemsRecent
             THEN ReadVia(Call("items", [limit |-> Num(20), sort |-> S("dateModified"),
                                         direction |-> S("desc")]),
                          uri, "application/json", TRUE, oc)
         ELSE Returned(HandlerError(-32602, Message("Resource not found: ", uri)), <<>>)
\* the body of the try block of _handle_read_resource
ReadResourceBody(uri, oc) ==
    IF uri = UriCollections
        THEN ReadVia(Call("collections", <<>>), uri, "application/json", TRUE, oc)
    ELSE IF uri = UriItemsTop
        THEN ReadVia(Call("top", [limit |-> Num(50)]), uri, "application/json", TRUE, oc)
    ELSE IF uri = UriItemsRecent
        THEN ReadVia(Call("items", [limit |-> Num(20), sort |-> S("dateModified"),
                                    direction |-> S("desc")]),
                     uri, "application/json", TRUE, oc)
    ELSE IF uri.k # "str"
        THEN Returned(ReadError(S("AttributeError")), <<>>)     \* uri.startswith on a non-str
    ELSE LET u == uri.s
             parts == Split(u)
         IN
         IF StartsWith(u, PrefixCollections) /\ EndsWith(u, SuffixItems)
             THEN IF ~HasIndex(parts, 2) THEN Returned(ReadError(S("IndexError")), <<>>)
                  ELSE ReadVia(Call("collection_items", [key |-> Piece(CollectionKey(parts))]),
                               uri, "application/json", TRUE, oc)
         ELSE IF StartsWith(u, PrefixItems) /\ Contains(u, InfixCitation)
             THEN IF ~HasIndex(parts, 4) THEN Returned(ReadError(S("IndexError")), <<>>)
                  ELSE ReadVia(Call("item", [key |-> Piece(CitationKey(parts)),
                                             format |-> S("citation"),
                                             style |-> Piece(CitationStyle(parts))]),
                               uri, "text/plain", FALSE, oc)
         ELSE IF IsItemUri(u)
             THEN ReadVia(Call("item", [key |-> Piece(ItemKey(parts))]),
                          uri, "application/json", TRUE, oc)
         ELSE Returned(HandlerError(-32602, Message("Resource not found: ", uri)), <<>>)

HandleReadResource(params, z, oc) ==
    IF ~CanGet(params) THEN Raised(S("AttributeError"), <<>>)    \* params.get on a non-dict
    ELSE IF z = "None" THEN Returned(NotInitialized, <<>>)
    ELSE ReadResourceBody(Get(params, "uri", Null), oc)

(***************************************************************************)
(* Tools: _handle_list_tools, _handle_call_tool.                           *)
(***************************************************************************)
\* a tool descriptor: name, description, and the property names and the
\* "required" list of its inputSchema
ToolDescriptor(name, description, properties, required) ==
    Obj([name |-> S(name),
         description |-> S(description),
         inputSchema |-> Obj([type |-> S("object"),
                              properties |-> Arr(properties),
                              required |-> Arr(required)])])

HandleListTools(params) ==
    Obj([tools |-> Arr(<<
        ToolDescriptor("search_items", "Search for items in the Zotero library",
                       <<S("query"), S("collection_key"), S("limit")>>, <<S("query")>>),
        ToolDescriptor("get_citation", "Get citation for a specific item",
                       <<S("item_key"), S("style")>>, <<S("item_key")>>),
        ToolDescriptor("add_item", "Add a new item to the Zotero library",
                       <<S("item_type"), S("title"), S("creators"), S("collection_key"),
                         S("additional_fields")>>,
                       <<S("item_type"), S("title")>>),
        ToolDescriptor("get_bibliography", "Get bibliography for multiple items",
                       <<S("item_keys"), S("style")>>, <<S("item_keys")>>)>>)])

KeyInAndTruthy(key, args) ==
    CASE args.k = "obj" -> IF key \in DOMAIN args.o /\ Truthy(args.o[key]) THEN "yes" ELSE "no"
      [] args.k = "arr" -> IF \E i \in 1..Len(args.a) : args.a[i] = S(key) THEN "yes" ELSE "no"
      [] args.k = "str" -> IF Contains(args.s, <<key>>) THEN "yes" ELSE "no"
      [] OTHER -> "raise"
\* the Python test `key in args`: "yes", "no", or "raise" (TypeError)
KeyIn(key, args) ==
    CASE args.k = "obj" -> IF key \in DOMAIN args.o THEN "yes" ELSE "no"
      [] args.k = "arr" -> IF \E i \in 1..Len(args.a) : args.a[i] = S(key) THEN "yes" ELSE "no"
      [] args.k = "str" -> IF Contains(args.s, <<key>>) THEN "yes" ELSE "no"
      [] OTHER -> "raise"
\* args[key] is defined (no KeyError, no TypeError)
CanIndex(args, key) == args.k = "obj" /\ key \in DOMAIN args.o

\* {"content": [{"type": "text", "text": text}]}
Content(text) == Obj([content |-> Arr(<<Obj([type |-> S("text"), text |-> text])>>)])
ToolError(exc) == HandlerError(-32000, Message("Error calling tool: ", exc))
MissingParameter(text) == HandlerError(-32602, Message(text, Null))

\* the key the backend gives a created item, and create_items' two result shapes
NewKey == S("NEWKEY1")
CreateResponse(created) ==
    IF created
    THEN Obj([success |-> Obj("0" :> NewKey),
              successful |-> Obj("0" :> Obj([key |-> NewKey])),
              failed |-> EmptyObj])
    ELSE Obj([success |-> EmptyObj, successful |-> EmptyObj,
              failed |-> Obj("0" :> Obj([code |-> Num(400)]))])

DefaultLimitOfTop == Num(50)
DefaultLimit == Num(20)
DefaultStyle == S("apa")

SearchItemsKeyNotNone(args, oc) ==
    IF KeyIn("query", args) = "raise" THEN Returned(ToolError(S("TypeError")), <<>>)
    ELSE IF KeyIn("query", args) = "no"
        THEN Returned(MissingParameter("Missing required parameter: query"), <<>>)
    ELSE IF ~CanIndex(args, "query") THEN Returned(ToolError(S("TypeError")), <<>>)
    ELSE LET query == args.o["query"]
             collection_key == Get(args, "collection_key", Null)
             limit == Get(args, "limit", DefaultLimit)
             call == IF collection_key # Null
                     THEN Call("collection_items_top",
                               [key |-> collection_key, q |-> query, limit |-> limit])
                     ELSE Call("items", [q |-> query, limit |-> limit])
         IN  IF oc.raiseAt = 1 THEN Returned(ToolError(BackendError), <<call>>)
             ELSE Returned(Content(JsonDumps(Obj([query |-> query,
                                                  results |-> BackendData(call)]))),
                           <<call>>)
SearchItems(args, oc) ==
    IF KeyIn("query", args) = "raise" THEN Returned(ToolError(S("TypeError")), <<>>)
    ELSE IF KeyIn("query", args) = "no"
        THEN Returned(MissingParameter("Missing required parameter: query"), <<>>)
    ELSE IF ~CanIndex(args, "query") THEN Returned(ToolError(S("TypeError")), <<>>)
    ELSE LET query == args.o["query"]
             collection_key == Get(args, "collection_key", Null)
             limit == Get(args, "limit", DefaultLimit)
             call == IF Truthy(collection_key)
                     THEN Call("collection_items_top",
                               [key |-> collection_key, q |-> query, limit |-> limit])
                     ELSE Call("items", [q |-> query, limit |-> limit])
         IN  IF oc.raiseAt = 1 THEN Returned(ToolError(BackendError), <<call>>)
             ELSE Returned(Content(JsonDumps(Obj([query |-> query,
                                                  results |-> BackendData(call)]))),
                           <<call>>)

GetCitation(args, oc) ==
    IF KeyIn("item_key", args) = "raise" THEN Returned(ToolError(S("TypeError")), <<>>)
    ELSE IF KeyIn("item_key", args) = "no"
        THEN Returned(MissingParameter("Missing required parameter: item_key"), <<>>)
    ELSE IF ~CanIndex(args, "item_key") THEN Returned(ToolError(S("TypeError")), <<>>)
    ELSE LET call == Call("item", [key |-> args.o["item_key"], format |-> S("citation"),
                                   style |-> Get(args, "style", DefaultStyle)])
         IN  IF oc.raiseAt = 1 THEN Returned(ToolError(BackendError), <<call>>)
             ELSE Returned(Content(BackendData(call)), <<call>>)

GetBibliography(args, oc) ==
    IF KeyIn("item_keys", args) = "raise" THEN Returned(ToolError(S("TypeError")), <<>>)
    ELSE IF KeyIn("item_keys", args) = "no"
        THEN Returned(MissingParameter("Missing required parameter: item_keys"), <<>>)
    ELSE IF ~CanIndex(args, "item_keys") THEN Returned(ToolError(S("TypeError")), <<>>)
    ELSE LET call == Call("bibliography", [keys |-> args.o["item_keys"],
                                           style |-> Get(args, "style", DefaultStyle)])
         IN  IF oc.raiseAt = 1 THEN Returned(ToolError(BackendError), <<call>>)
             ELSE Returned(Content(BackendData(call)), <<call>>)

\* the template after title, creators and additional_fields have been set
ItemTemplate(item_type, title, creators, additional_fields) ==
    LET base == IF Truthy(creators) THEN [title |-> title, creators |-> creators]
                ELSE [title |-> title]
        extra == additional_fields.o
    IN  [k |-> "template", type |-> item_type,
         fields |-> [x \in DOMAIN base \cup DOMAIN extra |->
                        IF x \in DOMAIN extra THEN extra[x] ELSE base[x]]]

AddItemCreateOnly(args, oc) ==
    IF KeyIn("item_type", args) = "raise" THEN Returned(ToolError(S("TypeError")), <<>>)
    ELSE IF KeyIn("item_type", args) = "no" \/ KeyIn("title", args) = "no"
        THEN Returned(MissingParameter("Missing required parameters: item_type and title"), <<>>)
    ELSE IF ~CanIndex(args, "item_type") THEN Returned(ToolError(S("TypeError")), <<>>)
    ELSE LET item_type == args.o["item_type"]
             title == args.o["title"]
             creators == Get(args, "creators", Arr(<<>>))
             collection_key == Get(args, "collection_key", Null)
             additional_fields == Get(args, "additional_fields", EmptyObj)
             c1 == Call("item_template", [type |-> item_type])
         IN
         IF oc.raiseAt = 1 THEN Returned(ToolError(BackendError), <<c1>>)
         ELSE IF additional_fields.k # "obj"           \* additional_fields.items()
             THEN Returned(ToolError(S("AttributeError")), <<c1>>)
         ELSE LET c2 == Call("create_items",
                             [items |-> <<ItemTemplate(item_type, title, creators,
                                                       additional_fields)>>])
                  response == CreateResponse(oc.created)
              IN
              IF oc.raiseAt = 2 THEN Returned(ToolError(BackendError), <<c1, c2>>)
              ELSE Returned(Content(JsonDumps(response)), <<c1, c2>>)
AddItemAssociatesWithoutKey(args, oc) ==
    IF KeyIn("item_type", args) = "raise" THEN Returned(ToolError(S("TypeError")), <<>>)
    ELSE IF KeyIn("item_type", args) = "no" \/ KeyIn("title", args) = "no"
        THEN Returned(MissingParameter("Missing required parameters: item_type and title"), <<>>)
    ELSE IF ~CanIndex(args, "item_type") THEN Returned(ToolError(S("TypeError")), <<>>)
    ELSE LET item_type == args.o["item_type"]
             title == args.o["title"]
             creators == Get(args, "creators", Arr(<<>>))
             collection_key == Get(args, "collection_key", Null)
             additional_fields == Get(args, "additional_fields", EmptyObj)
             c1 == Call("item_template", [type |-> item_type])
         IN
         IF oc.raiseAt = 1 THEN Returned(ToolError(BackendError), <<c1>>)
         ELSE IF additional_fields.k # "obj"           \* additional_fields.items()
             THEN Returned(ToolError(S("AttributeError")), <<c1>>)
         ELSE LET c2 == Call("create_items",
                             [items |-> <<ItemTemplate(item_type, title, creators,
                                                       additional_fields)>>])
                  response == CreateResponse(oc.created)
              IN
              IF oc.raiseAt = 2 THEN Returned(ToolError(BackendError), <<c1, c2>>)
              ELSE IF Truthy(Get(response, "success", Null))
                  THEN LET item_key == response.o["successful"].o["0"].o["key"]
                           c3 == Call("addto_collection",
                                      [key |-> collection_key, items |-> <<item_key>>])
                       IN  IF oc.raiseAt = 3
                           THEN Returned(ToolError(BackendError), <<c1, c2, c3>>)
                           ELSE Returned(Content(JsonDumps(response)), <<c1, c2, c3>>)
              ELSE Returned(Content(JsonDumps(response)), <<c1, c2>>)
AddItem(args, oc) ==
    IF KeyIn("item_type", args) = "raise" THEN Returned(ToolError(S("TypeError")), <<>>)
    ELSE IF KeyIn("item_type", args) = "no" \/ KeyIn("title", args) = "no"
        THEN Returned(MissingParameter("Missing required parameters: item_type and title"), <<>>)
    ELSE IF ~CanIndex(args, "item_type") THEN Returned(ToolError(S("TypeError")), <<>>)
    ELSE LET item_type == args.o["item_type"]
             title == args.o["title"]
             creators == Get(args, "creators", Arr(<<>>))
             collection_key == Get(args, "collection_key", Null)
             additional_fields == Get(args, "additional_fields", EmptyObj)
             c1 == Call("item_template", [type |-> item_type])
         IN
         IF oc.raiseAt = 1 THEN Returned(ToolError(BackendError), <<c1>>)
         ELSE IF additional_fields.k # "obj"           \* additional_fields.items()
             THEN Returned(ToolError(S("AttributeError")), <<c1>>)
         ELSE LET c2 == Call("create_items",
                             [items |-> <<ItemTemplate(item_type, title, creators,
                                                       additional_fields)>>])
                  response == CreateResponse(oc.created)
              IN
              IF oc.raiseAt = 2 THEN Returned(ToolError(BackendError), <<c1, c2>>)
              ELSE IF Truthy(collection_key) /\ Truthy(Get(response, "success", Null))
                  THEN LET item_key == response.o["successful"].o["0"].o["key"]
                           c3 == Call("addto_collection",
                                      [key |-> collection_key, items |-> <<item_key>>])
                       IN  IF oc.raiseAt = 3
                           THEN Returned(ToolError(BackendError), <<c1, c2, c3>>)
                           ELSE Returned(Content(JsonDumps(response)), <<c1, c2, c3>>)
              ELSE Returned(Content(JsonDumps(response)), <<c1, c2>>)

\* the body of the try block of _handle_call_tool
CallToolBody(tool_name, args, oc) ==
    IF tool_name = S("search_items") THEN SearchItems(args, oc)
    ELSE IF tool_name = S("get_citation") THEN GetCitation(args, oc)
    ELSE IF tool_name = S("add_item") THEN AddItem(args, oc)
    ELSE IF tool_name = S("get_bibliography") THEN GetBibliography(args, oc)
    ELSE Returned(HandlerError(-32601, Message("Unknown tool: ", tool_name)), <<>>)

HandleCallTool(params, z, oc) ==
    IF ~CanGet(params) THEN Raised(S("AttributeError"), <<>>)    \* params.get on a non-dict
    ELSE IF z = "None" THEN Returned(NotInitialized, <<>>)
    ELSE CallToolBody(Get(params, "name", Null), Get(params, "arguments", EmptyObj), oc)

(***************************************************************************)
(* The dispatcher: _process_request and one iteration of run().            *)
(***************************************************************************)
SuccessHoistsError(result, id) ==
    IF result.k = "obj" /\ "error" \in DOMAIN result.o
    THEN [jsonrpc |-> "2.0", result |-> result, error |-> result.o["error"], id |-> id]
    ELSE [jsonrpc |-> "2.0", result |-> result, id |-> id]
SuccessResponse(result, id) == [jsonrpc |-> "2.0", result |-> result, id |-> id]
ErrorResponse(code, message, id) ==
    [jsonrpc |-> "2.0", error |-> ErrorBody(code, message), id |-> id]

DispatchFallsThrough(method, params, z, oc) ==
    IF method = S("list_resources") THEN Returned(HandleListResources(params), <<>>)
    ELSE IF method = S("list_resource_templates")
        THEN Returned(HandleListResourceTemplates(params), <<>>)
    ELSE IF method = S("read_resource") THEN HandleReadResource(params, z, oc)
    ELSE IF method = S("list_tools") THEN Returned(HandleListTools(params), <<>>)
    ELSE HandleCallTool(params, z, oc)
\* the if/elif chain of _process_request: the outcome of the handler selected
\* for `method`, or NoHandler when the chain falls through to its else branch
NoHandler == [k |-> "nohandler"]
DispatchReadAsTool(method, params, z, oc) ==
    IF method = S("list_resources") THEN Returned(HandleListResources(params), <<>>)
    ELSE IF method = S("list_resource_templates")
        THEN Returned(HandleListResourceTemplates(params), <<>>)
    ELSE IF method = S("read_resource") THEN HandleCallTool(params, z, oc)
    ELSE IF method = S("list_tools") THEN Returned(HandleListTools(params), <<>>)
    ELSE IF method = S("call_tool") THEN HandleCallTool(params, z, oc)
    ELSE Returned(NoHandler, <<>>)
Dispatch(method, params, z, oc) ==
    IF method = S("list_resources") THEN Returned(HandleListResources(params), <<>>)
    ELSE IF method = S("list_resource_templates")
        THEN Returned(HandleListResourceTemplates(params), <<>>)
    ELSE IF method = S("read_resource") THEN HandleReadResource(params, z, oc)
    ELSE IF method = S("list_tools") THEN Returned(HandleListTools(params), <<>>)
    ELSE IF method = S("call_tool") THEN HandleCallTool(params, z, oc)
    ELSE Returned(NoHandler, <<>>)

\* the id _process_request stores in self.jsonrpc_id and echoes
RequestId(request) == Get(request, "id", Null)

MethodNotFound(method, request_id) ==
    ErrorResponse(-32601, Message("Method not found: ", method), request_id)

\* the return statements of _process_request, given the outcome h of the handler
Answer(h, method, request_id) ==
    [raised |-> h.raised, exc |-> h.exc,
     response |-> IF h.raised THEN Null
                  ELSE IF h.result = NoHandler THEN MethodNotFound(method, request_id)
                  ELSE SuccessResponse(h.result, request_id),
     calls |-> h.calls, id |-> request_id]

ProcessRequestKeepsLastId(request, z, oc, last) ==
    IF ~CanGet(request)
        THEN [raised |-> TRUE, exc |-> S("AttributeError"), response |-> Null,
              calls |-> <<>>, id |-> last]
    ELSE LET method == Get(request, "method", Null)
             params == Get(request, "params", EmptyObj)
             request_id == Get(request, "id", last)
         IN  CHOOSE a \in {Answer(h, method, request_id) :
                              h \in {Dispatch(method, params, z, oc)}} : TRUE
\* _process_request: what it returns or raises, the calls it made, and the
\* value of self.jsonrpc_id when it ends (`last` is the value when it starts).
\* (h ranges over a one-element set so that the handler is evaluated once.)
ProcessRequest(request, z, oc, last) ==
    IF ~CanGet(request)                                    \* request.get on a non-dict
        THEN [raised |-> TRUE, exc |-> S("AttributeError"), response |-> Null,
              calls |-> <<>>, id |-> last]
    ELSE LET method == Get(request, "method", Null)
             params == Get(request, "params", EmptyObj)
             request_id == RequestId(request)
         IN  CHOOSE a \in {Answer(h, method, request_id) :
                              h \in {Dispatch(method, params, z, oc)}} : TRUE

\* sys.stdin.readline().strip()
Whitespace == {" ", "\t"}
Strip(line) ==
    IF line.k = "str" /\ \A i \in 1..Len(line.s) : line.s[i] \in Whitespace
    THEN Str(<<>>) ELSE line
\* json.loads succeeds exactly on the text json.dumps wrote
Parses(line) == line.k = "text"
JsonLoads(line) == line.json

\* the id of the error response of run()'s except branch
ExceptId(last) == last
InternalError(exc, last) ==
    ErrorResponse(-32000, Message("Internal error: ", exc), ExceptId(last))

\* what run() prints after _process_request ended with r: its response, or
\* the error response of the except branch
Printed(r) ==
    [unit |-> IF r.raised THEN InternalError(r.exc, r.id) ELSE r.response,
     calls |-> r.calls, id |-> r.id]

\* the body of one iteration of run() on a non-empty line: the response unit
\* it prints, the backend calls it makes, and self.jsonrpc_id afterwards
Iteration(line, z, oc, last) ==
    IF ~Parses(line)
        THEN [unit |-> InternalError(S("JSONDecodeError"), last), calls |-> <<>>, id |-> last]
    ELSE CHOOSE p \in {Printed(r) : r \in {ProcessRequest(JsonLoads(line), z, oc, last)}} : TRUE

(***************************************************************************)
(* Construction: __init__ and _init_zotero_client.                         *)
(***************************************************************************)
InitZoteroClient(api_key, user_id, group_id, ctor_raises) ==
    IF ~api_key THEN "None"
    ELSE IF user_id \/ group_id THEN (IF ctor_raises THEN "None" ELSE "client")
    ELSE "None"

(***************************************************************************)
(* The caller: what it may write on the server's stdin.  The n-th line a   *)
(* caller writes carries the id n or no id.  A session caller writes up to *)
(* MaxLines lines with bodies out of SessionBodies; a probe caller writes  *)
(* up to                                                                   *)
(* MaxProbe lines with bodies out of ProbeBodies, which holds every        *)
(* request shape; the caller of the fair specification ("live") writes up  *)
(* to MaxLive lines, and a caller of the list methods ("lists") up to       *)
(* MaxLists lines out of ListBodies.                                       *)
(***************************************************************************)
Absent == [k |-> "absent"]
\* the JSON object with the fields of f that are not Absent
MakeObj(f) == Obj([x \in {y \in DOMAIN f : f[y] # Absent} |-> f[x]])
Request(method, params, id) ==
    JsonDumps(MakeObj([jsonrpc |-> S("2.0"), method |-> method, params |-> params, id |-> id]))
Params(f) == MakeObj(f)

UriCitationApa == Uri(<<"zotero:", "", "items", "ABC123", "citation", "apa">>)
UriCitationMla == Uri(<<"zotero:", "", "items", "XYZ789", "citation", "mla">>)
UriCollectionItems == Uri(<<"zotero:", "", "collections", "COLL1", "items">>)
UriItem == Uri(<<"zotero:", "", "items", "ABC123">>)
UriUnknown == Uri(<<"zotero:", "", "tags">>)
\* URIs with one segment more or less than a template
UriCollectionExtra == Uri(<<"zotero:", "", "collections", "A", "B", "items">>)
UriCollectionShort == Uri(<<"zotero:", "", "collections", "items">>)
UriCitationExtra == Uri(<<"zotero:", "", "items", "A", "citation", "apa", "extra">>)
UriItemExtra == Uri(<<"zotero:", "", "items", "A", "B">>)

ProbeUris ==
    {UriCollections, UriItemsTop, UriItemsRecent, UriCitationApa, UriCitationMla,
     UriCollectionItems, UriItem, UriUnknown, Absent, Num(7),
     UriCollectionExtra, UriCollectionShort, UriCitationExtra, UriItemExtra}

\* argument mappings: every subset of a tool's keys, each key with one value
ArgValue(key) ==
    CASE key = "query" -> S("ethics")
      [] key = "collection_key" -> S("COLL1")
      [] key = "limit" -> Num(5)
      [] key = "item_key" -> S("ABC123")
      [] key = "style" -> S("mla")
      [] key = "item_type" -> S("journalArticle")
      [] key = "title" -> S("T")
      [] key = "item_keys" -> Arr(<<S("ABC123"), S("XYZ789")>>)
      [] key = "name" -> S("Papers")
      [] OTHER -> Null
ArgsOver(keys) == {Obj([x \in ks |-> ArgValue(x)]) : ks \in SUBSET keys}
ToolKeys(name) ==
    CASE name = "search_items" -> {"query", "collection_key", "limit"}
      [] name = "get_citation" -> {"item_key", "style"}
      [] name = "add_item" -> {"item_type", "title", "collection_key"}
      [] name = "get_bibliography" -> {"item_keys", "style"}
      [] name = "create_collection" -> {"name"}
      [] OTHER -> {"item_key"}
ProbeTools ==
    {"search_items", "get_citation", "add_item", "get_bibliography",
     "update_item", "delete_item", "create_collection"}
\* argument mappings with an ill-typed, empty or null value
EdgeToolParams ==
    {Params([name |-> S("search_items"), arguments |-> Obj([query |-> Num(5)])]),
     Params([name |-> S("search_items"), arguments |-> Obj([query |-> Str(<<>>)])]),
     Params([name |-> S("search_items"),
             arguments |-> Obj([query |-> S("ethics"), collection_key |-> Null])]),
     Params([name |-> S("search_items"),
             arguments |-> Obj([query |-> S("ethics"), collection_key |-> Str(<<>>)])]),
     Params([name |-> S("get_bibliography"), arguments |-> Obj([item_keys |-> S("ABC123")])]),
     Params([name |-> S("add_item"),
             arguments |-> Obj([item_type |-> S("journalArticle"), title |-> S("T"),
                                collection_key |-> Null])]),
     Params([name |-> S("add_item"),
             arguments |-> Obj([item_type |-> S("journalArticle"), title |-> S("T"),
                                collection_key |-> Str(<<>>)])])}
ProbeToolParams ==
    UNION {{Params([name |-> S(t), arguments |-> a]) : a \in ArgsOver(ToolKeys(t)) \cup {Absent, Null}}
           : t \in ProbeTools}
    \cup {Params([name |-> Absent, arguments |-> EmptyObj])}
    \cup EdgeToolParams

ProbeBodies ==
    {<<S(m), EmptyObj>> : m \in {"list_resources", "list_resource_templates", "list_tools",
                                 "frobnicate"}}
    \cup {<<Absent, EmptyObj>>, <<S("frobnicate"), Absent>>}
    \cup {<<S(m), p>> : m \in {"list_resources", "list_resource_templates", "list_tools"},
                        p \in {Null, Absent, Params([uri |-> UriItem])}}
    \cup {<<S("read_resource"), Params([uri |-> u])>> : u \in ProbeUris}
    \cup {<<S("read_resource"), p>> : p \in {Null, Absent, Arr(<<>>)}}
    \cup {<<S("read_resource"),
            Params([uri |-> UriCollections, name |-> S("add_item"),
                    arguments |-> Obj([x \in {"item_type", "title"} |-> ArgValue(x)])])>>}
    \cup {<<S("call_tool"), p>> : p \in ProbeToolParams \cup {Null}}

SessionBodies ==
    {<<S("frobnicate"), EmptyObj>>,
     <<S("list_resources"), EmptyObj>>,
     <<S("read_resource"), Params([uri |-> UriCitationApa])>>,
     <<S("call_tool"), Params([name |-> S("search_items"), arguments |-> EmptyObj])>>,
     <<S("read_resource"), Null>>}

\* lines that are no request object: whitespace only (stripped, it is the
\* empty line, which is also what readline() returns at end of input), no JSON
\* at all, and a JSON value that is not an object
EmptyLine == Str(<<>>)
BlankLine == Str(<<" ">>)
GarbageLine == Str(<<"{not json">>)
ArrayLine == JsonDumps(Arr(<<>>))
OtherLines == {BlankLine, GarbageLine, ArrayLine}

LiveBodies ==
    {<<S("frobnicate"), EmptyObj>>,
     <<S("read_resource"), Params([uri |-> UriCitationApa])>>}

\* the three list methods with several params, and two requests that go to
\* the backend
ListBodies ==
    {<<S(m), p>> : m \in {"list_resources", "list_resource_templates", "list_tools"},
                   p \in {EmptyObj, Null}}
    \cup {<<S("read_resource"), Params([uri |-> UriCollections])>>,
          <<S("call_tool"), Params([name |-> S("search_items"),
                                    arguments |-> Obj([query |-> S("ethics")])])>>}

Bodies(c) ==
    CASE c = "session" -> SessionBodies
      [] c = "probe" -> ProbeBodies
      [] c = "lists" -> ListBodies
      [] OTHER -> LiveBodies
Quota(c) ==
    CASE c = "session" -> MaxLines
      [] c = "probe" -> MaxProbe
      [] c = "lists" -> MaxLists
      [] OTHER -> MaxLive
\* the lines a caller may write as its n-th line
Lines(c, n) ==
    {Request(b[1], b[2], id) : b \in Bodies(c), id \in {Absent, Num(n)}} \cup OtherLines

(***************************************************************************)
(* The client ZoteroMCPClient: the process handle and its three            *)
(* operations.  A process is a pid; pid 0 stands for None.                 *)
(***************************************************************************)
NoProcess == 0
\* self.server_process.poll() is None: the process held has not exited
Poll(held, live) == held \in live

StartServerAlways(held, live, pid, popen_ok) ==
    IF popen_ok
    THEN [server_process |-> pid, running |-> live \cup {pid}, raised |-> FALSE]
    ELSE [server_process |-> held, running |-> live, raised |-> TRUE]
\* start_server(): Popen only when no process is held or the held one has
\* exited; a Popen that raises leaves the handle as it was
StartServer(held, live, pid, popen_ok) ==
    IF held = NoProcess \/ ~Poll(held, live)
    THEN IF popen_ok
         THEN [server_process |-> pid, running |-> live \cup {pid}, raised |-> FALSE]
         ELSE [server_process |-> held, running |-> live, raised |-> TRUE]
    ELSE [server_process |-> held, running |-> live, raised |-> FALSE]

\* stop_server(): a live process is terminated and waited for (the server
\* installs no signal handler, so SIGTERM ends it), then the handle is cleared
StopServer(held, live) ==
    IF held # NoProcess /\ Poll(held, live)
    THEN [server_process |-> NoProcess, running |-> live \ {held}]
    ELSE [server_process |-> held, running |-> live]

\* _send_request(), after response = json.loads(response_line): an exception
\* when the response has an "error" member, else its "result" is returned
ClientReceives(response) ==
    IF "error" \in DOMAIN response
    THEN [raised |-> TRUE, value |-> Null]
    ELSE [raised |-> FALSE, value |-> response.result]

(***************************************************************************)
(* Actions.                                                                *)
(***************************************************************************)
InitWith(c) ==
    /\ \E api_key, user_id, group_id, ctor_raises \in BOOLEAN :
            zot = InitZoteroClient(api_key, user_id, group_id, ctor_raises)
    /\ jsonrpc_id = Num(0)
    /\ pc = "read"
    /\ cur = EmptyLine
    /\ stdin = <<>>
    /\ stdout = <<>>
    /\ calls = <<>>
    /\ received = <<>>
    /\ nsent = 0
    /\ caller = c
    /\ server_process = NoProcess
    /\ running = {}
    /\ nspawned = 0
    /\ client_pc = "idle"
    /\ ops = 0
    /\ written = <<>>

Init == InitWith("session")
InitProbe == InitWith("probe")
InitLive == InitWith("live")
InitLists == InitWith("lists")

\* the caller writes one more line
Send ==
    /\ nsent < Quota(caller)
    /\ \E line \in Lines(caller, nsent + 1) : stdin' = Append(stdin, line)
    /\ nsent' = nsent + 1
    /\ UNCHANGED <<zot, jsonrpc_id, pc, cur, stdout, calls, received, caller>>
    /\ UNCHANGED cvars

ReadLineEager ==
    /\ stdin # <<>>
    /\ LET request_line == Strip(Head(stdin))
       IN  /\ stdin' = Tail(stdin)
           /\ received' = Append(received, request_line)
           /\ IF request_line = EmptyLine
              THEN UNCHANGED <<pc, cur>>
              ELSE pc' = "handle" /\ cur' = request_line
    /\ UNCHANGED <<zot, jsonrpc_id, stdout, calls, nsent, caller>>
    /\ UNCHANGED cvars
ReadLineNoSkip ==
    /\ pc = "read"
    /\ stdin # <<>>
    /\ LET request_line == Strip(Head(stdin))
       IN  /\ stdin' = Tail(stdin)
           /\ received' = Append(received, request_line)
           /\ pc' = "handle" /\ cur' = request_line
    /\ UNCHANGED <<zot, jsonrpc_id, stdout, calls, nsent, caller>>
    /\ UNCHANGED cvars
\* run(): request_line = await self._read_line(); an empty line is skipped
ReadLine ==
    /\ pc = "read"
    /\ stdin # <<>>
    /\ LET request_line == Strip(Head(stdin))
       IN  /\ stdin' = Tail(stdin)
           /\ received' = Append(received, request_line)
           /\ IF request_line = EmptyLine
              THEN UNCHANGED <<pc, cur>>
              ELSE pc' = "handle" /\ cur' = request_line
    /\ UNCHANGED <<zot, jsonrpc_id, stdout, calls, nsent, caller>>
    /\ UNCHANGED cvars

EmitErrorsDropped(out, src, unit) ==
    IF "error" \in DOMAIN unit THEN out ELSE Append(out, [src |-> src, unit |-> unit])
EmitTwiceOnExcept(out, src, unit) ==
    IF "error" \in DOMAIN unit /\ unit.error.code = -32000
    THEN out \o <<[src |-> src, unit |-> unit], [src |-> src, unit |-> unit]>>
    ELSE Append(out, [src |-> src, unit |-> unit])
EmitFirst(out, src, unit) == <<[src |-> src, unit |-> unit]>> \o out
\* print(json.dumps(unit), flush=True); src is the number of the line answered
Emit(out, src, unit) == Append(out, [src |-> src, unit |-> unit])

\* the record of the backend calls made while line src was handled under the
\* outcome oc, in the order made: the call, whether it raised, and the value
\* it returned (Null when it raised)
Logged(src, made, oc) ==
    [i \in 1..Len(made) |->
        [src |-> src, call |-> made[i], raised |-> (oc.raiseAt = i),
         ret |-> IF oc.raiseAt = i THEN Null
                 ELSE IF made[i].op = "create_items" THEN CreateResponse(oc.created)
                 ELSE BackendData(made[i])]]

HandleDropsClientOnFailure ==
    /\ pc = "handle"
    /\ \E it \in UNION {{[unit |-> i.unit, id |-> i.id, log |-> Logged(Len(received), i.calls, oc)]
                             : i \in {Iteration(cur, zot, oc, jsonrpc_id)}}
                          : oc \in BackendOutcomes} :
              /\ stdout' = Emit(stdout, Len(received), it.unit)
              /\ calls' = calls \o it.log
              /\ jsonrpc_id' = it.id
              /\ zot' = IF "error" \in DOMAIN it.unit THEN "None" ELSE zot
    /\ pc' = "read"
    /\ cur' = EmptyLine
    /\ UNCHANGED <<stdin, received, nsent, caller>>
    /\ UNCHANGED cvars
\* run(): parse, process and answer the line read, or answer from the except branch
Handle ==
    /\ pc = "handle"
    /\ \E it \in UNION {{[unit |-> i.unit, id |-> i.id, log |-> Logged(Len(received), i.calls, oc)]
                             : i \in {Iteration(cur, zot, oc, jsonrpc_id)}}
                          : oc \in BackendOutcomes} :
              /\ stdout' = Emit(stdout, Len(received), it.unit)
              /\ calls' = calls \o it.log
              /\ jsonrpc_id' = it.id
    /\ pc' = "read"
    /\ cur' = EmptyLine
    /\ UNCHANGED <<zot, stdin, received, nsent, caller>>
    /\ UNCHANGED cvars

Next == Send \/ ReadLine \/ Handle

Spec == Init /\ [][Next]_vars
SpecProbe == InitProbe /\ [][Next]_vars
SpecLists == InitLists /\ [][Next]_vars

\* the loop is one thread that always goes on: a line waiting on stdin is
\* read, and the handling of a line read ends (the backend returns or raises)
FairSpec == InitLive /\ [][Next]_vars /\ WF_vars(ReadLine) /\ WF_vars(Handle)

(***************************************************************************)
(* The client's calls.  _send_request is two steps, start_server and then  *)
(* the write and the read, because the process can exit between them.      *)
(***************************************************************************)
\* a call of start_server()
ClientStarts ==
    /\ client_pc = "idle"
    /\ ops < MaxOps
    /\ \E popen_ok \in BOOLEAN :
         LET r == StartServer(server_process, running, nspawned + 1, popen_ok)
         IN  /\ server_process' = r.server_process
             /\ running' = r.running
             /\ nspawned' = IF r.running = running THEN nspawned ELSE nspawned + 1
    /\ ops' = ops + 1
    /\ UNCHANGED <<client_pc, written>>
    /\ UNCHANGED svars

\* a call of stop_server()
ClientStops ==
    /\ client_pc = "idle"
    /\ ops < MaxOps
    /\ LET r == StopServer(server_process, running)
       IN  /\ server_process' = r.server_process
           /\ running' = r.running
    /\ ops' = ops + 1
    /\ UNCHANGED <<nspawned, client_pc, written>>
    /\ UNCHANGED svars

\* _send_request(), first statement: self.start_server(); an exception of
\* Popen leaves _send_request
SendRequestStarts ==
    /\ client_pc = "idle"
    /\ ops < MaxOps
    /\ \E popen_ok \in BOOLEAN :
         LET r == StartServer(server_process, running, nspawned + 1, popen_ok)
         IN  /\ server_process' = r.server_process
             /\ running' = r.running
             /\ nspawned' = IF r.running = running THEN nspawned ELSE nspawned + 1
             /\ client_pc' = IF r.raised THEN "idle" ELSE "write"
    /\ ops' = ops + 1
    /\ UNCHANGED written
    /\ UNCHANGED svars

\* _send_request(), the rest: the request is written to the process held and
\* the answer read; when the process has exited the write or the parse of the
\* empty answer raises
SendRequestWrites ==
    /\ client_pc = "write"
    /\ written' = Append(written, [to |-> server_process,
                                   alive |-> Poll(server_process, running)])
    /\ client_pc' = "idle"
    /\ UNCHANGED <<server_process, running, nspawned, ops>>
    /\ UNCHANGED svars

\* a server process ends without the client (it crashes or is killed)
ServerExits ==
    /\ \E p \in running : running' = running \ {p}
    /\ UNCHANGED <<server_process, nspawned, client_pc, ops, written>>
    /\ UNCHANGED svars

NextClient ==
    ClientStarts \/ ClientStops \/ SendRequestStarts \/ SendRequestWrites \/ ServerExits

InitClient == InitWith("client")
SpecClient == InitClient /\ [][NextClient]_vars

(***************************************************************************)
(* Properties.                                                             *)
(***************************************************************************)
\* the n-th line the caller wrote, stripped
LineNo(n) == IF n <= Len(received) THEN received[n] ELSE Strip(stdin[n - Len(received)])
\* the positions in stdout of the response units that answer line n
Answers(n) == {i \in 1..Len(stdout) : stdout[i].src = n}
\* line n has been read and its handling has ended
Handled(n) == n < Len(received) \/ (n = Len(received) /\ pc = "read")
\* the line is a JSON object, and the object
IsRequest(line) == Parses(line) /\ CanGet(JsonLoads(line))
MethodOf(line) == Get(JsonLoads(line), "method", Null)
ParamsOf(line) == Get(JsonLoads(line), "params", EmptyObj)
IsError(unit) == "error" \in DOMAIN unit
IsResult(unit) == "result" \in DOMAIN unit
\* the server is idle and has consumed everything the caller wrote
Quiescent == pc = "read" /\ stdin = <<>>

\* C1 as stated: every input line, whatever its content, gets a response unit
\* (once the server has consumed its input, every line read has an answer).
C1_EveryLineAnswered ==
    Quiescent => \A n \in 1..Len(received) : Answers(n) # {}

\* every line written so far that is not empty after stripping has an answer
NonEmptyLinesAnswered ==
    \A n \in 1..nsent : LineNo(n) # EmptyLine => Answers(n) # {}

\* C1, amended: every input line that is not empty after stripping is
\* eventually answered by a response unit (units written stay written, so
\* "again and again all of them are answered" says it of each line).
C1_NonEmptyLineAnswered == []<>NonEmptyLinesAnswered

\* C1 witness: a line that is no request object (unparseable, or a JSON value
\* that is no object) and a request have each been answered.
C1_Witness ==
    /\ Len(received) = 2 /\ Quiescent
    /\ received[1] \in {GarbageLine, ArrayLine} /\ IsRequest(received[2])
    /\ \A n \in 1..2 : Answers(n) # {}

\* C2: once the handling of a non-empty line has ended there is exactly one
\* response unit for it, and none before; so between two reads exactly one
\* unit is written, on every path.
C2_ExactlyOneResponse ==
    \A n \in 1..Len(received) :
        received[n] # EmptyLine =>
            Cardinality(Answers(n)) = (IF Handled(n) THEN 1 ELSE 0)

\* C2 witness: the success path, the method-not-found path and the exception
\* path have each been taken once, and three units are on stdout.
C2_Witness ==
    /\ Len(stdout) = 3 /\ Len(received) = 3 /\ Quiescent
    /\ \E a, b, c \in 1..3 :
        /\ IsResult(stdout[a].unit) /\ "contents" \in DOMAIN stdout[a].unit.result.o
        /\ IsError(stdout[b].unit) /\ stdout[b].unit.error.code = -32601
        /\ IsError(stdout[c].unit) /\ stdout[c].unit.error.code = -32000

\* number of non-empty lines among the first n lines read
Rank(n) == Cardinality({m \in 1..n : received[m] # EmptyLine})

\* C3: the i-th response unit answers the i-th non-empty line read, and for
\* request objects it carries that request's id: responses come in the order
\* of their requests.
C3_ResponsesInRequestOrder ==
    \A i \in 1..Len(stdout) :
        LET n == stdout[i].src
        IN  /\ n \in 1..Len(received)
            /\ received[n] # EmptyLine
            /\ Rank(n) = i
            /\ IsRequest(received[n]) => stdout[i].unit.id = RequestId(JsonLoads(received[n]))

\* C3 witness: requests with ids 1, 2, 3 were answered with ids 1, 2, 3, the
\* second one being a read that went to the backend.
C3_Witness ==
    /\ Len(stdout) = 3
    /\ \A i \in 1..3 : IsRequest(received[i]) /\ stdout[i].unit.id = Num(i)
    /\ \E j \in 1..Len(calls) : calls[j].src = 2

\* the line a response unit answers
LineOf(i) == received[stdout[i].src]
\* the backend calls made while line n was handled
CallsFor(n) == {j \in 1..Len(calls) : calls[j].src = n}

\* C4 as stated: every response unit carries the id of the request it
\* answers, and null when that request has no id.
C4_ResponseIdEchoesRequest ==
    \A i \in 1..Len(stdout) :
        stdout[i].unit.id =
            (IF IsRequest(LineOf(i)) THEN Get(JsonLoads(LineOf(i)), "id", Null) ELSE Null)

\* C5 as stated: an input line that cannot be parsed is answered with an
\* error response whose id is null, whatever was processed before.
C5_UnparseableAnsweredWithNullId ==
    \A i \in 1..Len(stdout) :
        ~Parses(LineOf(i)) => IsError(stdout[i].unit) /\ stdout[i].unit.id = Null

\* C6: every response unit has the id field and exactly one of the top-level
\* fields result and error.
C6_ExactlyOneOfResultAndError ==
    \A i \in 1..Len(stdout) :
        LET fields == DOMAIN stdout[i].unit
        IN  /\ "id" \in fields
            /\ ("result" \in fields) # ("error" \in fields)

\* a result mapping that carries an error mapping: what a handler returns
\* when it fails
CarriesError(result) == result.k = "obj" /\ "error" \in DOMAIN result.o

\* C6 witness: a unit was printed for a call_tool request whose handler
\* returned an error mapping.
C6_Witness ==
    \E i \in 1..Len(stdout) :
        /\ IsResult(stdout[i].unit) /\ CarriesError(stdout[i].unit.result)
        /\ MethodOf(LineOf(i)) = S("call_tool")

\* C7 as stated: when a read_resource or call_tool delegate fails, the
\* response unit has a top-level error with an integer code and no top-level
\* result.
C7_DelegateFailureIsErrorResponse ==
    \A i \in 1..Len(stdout) :
        LET unit == stdout[i].unit
        IN  (/\ IsRequest(LineOf(i))
             /\ MethodOf(LineOf(i)) \in {S("read_resource"), S("call_tool")}
             /\ \/ IsError(unit)
                \/ IsResult(unit) /\ CarriesError(unit.result))
            => IsError(unit) /\ ~IsResult(unit) /\ unit.error.code \in Int

\* the five methods of the protocol
ProtocolMethods ==
    {S("list_resources"), S("list_resource_templates"), S("read_resource"),
     S("list_tools"), S("call_tool")}
\* the response unit answers a request whose method is not of the protocol
AnswersUnknownMethod(i) ==
    IsRequest(LineOf(i)) /\ MethodOf(LineOf(i)) \notin ProtocolMethods

\* C8: a request with an unknown method is answered with error code -32601
\* and its own id, without a backend call, and the same request is answered
\* with the same unit wherever it occurs.
C8_UnknownMethod ==
    \A i \in 1..Len(stdout) :
        AnswersUnknownMethod(i) =>
            LET unit == stdout[i].unit
            IN  /\ IsError(unit) /\ ~IsResult(unit)
                /\ unit.error.code = -32601
                /\ unit.id = Get(JsonLoads(LineOf(i)), "id", Null)
                /\ CallsFor(stdout[i].src) = {}
                /\ \A j \in 1..Len(stdout) : LineOf(j) = LineOf(i) => stdout[j].unit = unit

\* C8 witness: the same unknown-method request was answered twice, with a
\* request that raised in between.
C8_Witness ==
    /\ Len(stdout) = 3
    /\ AnswersUnknownMethod(1) /\ LineOf(3) = LineOf(1)
    /\ IsRequest(LineOf(2)) /\ stdout[2].unit.id = Num(2)
    /\ IsError(stdout[2].unit) /\ stdout[2].unit.error.code = -32000

\* the required keys of the tools that validate their arguments
RequiredKeys(tool) ==
    CASE tool = S("search_items") -> {"query"}
      [] tool = S("get_citation") -> {"item_key"}
      [] tool = S("add_item") -> {"item_type", "title"}
      [] tool = S("get_bibliography") -> {"item_keys"}
      [] OTHER -> {}
\* the line is a call_tool request whose argument mapping lacks a required key
LacksRequiredKey(line) ==
    /\ IsRequest(line) /\ MethodOf(line) = S("call_tool")
    /\ ParamsOf(line).k = "obj"
    /\ LET args == Get(ParamsOf(line), "arguments", EmptyObj)
       IN  /\ args.k = "obj"
           /\ RequiredKeys(Get(ParamsOf(line), "name", Null)) \ DOMAIN args.o # {}

\* C9 as stated: a tool call that lacks a required argument returns
\* error.code = -32602 and makes no backend call (with a usable client).
C9_MissingArgumentIsInvalidParams ==
    \A i \in 1..Len(stdout) :
        (zot = "client" /\ LacksRequiredKey(LineOf(i))) =>
            /\ IsError(stdout[i].unit) /\ stdout[i].unit.error.code = -32602
            /\ CallsFor(stdout[i].src) = {}

\* C10 as stated: for read_resource of zotero://items/{item_key}/citation/{style}
\* the backend citation call receives the two placeholder values of the URI.
C10_CitationPlaceholders ==
    \A j \in 1..Len(calls) :
        LET line == received[calls[j].src]
        IN  \A key \in {"ABC123", "XYZ789"}, style \in {"apa", "mla"} :
                (/\ IsRequest(line) /\ MethodOf(line) = S("read_resource")
                 /\ ParamsOf(line).k = "obj"
                 /\ Get(ParamsOf(line), "uri", Null)
                        = Uri(<<"zotero:", "", "items", key, "citation", style>>))
                => /\ calls[j].call.op = "item"
                   /\ calls[j].call.args.key = S(key)
                   /\ calls[j].call.args.style = S(style)

\* the response unit answers a read_resource request for the URI u
AnswersRead(i, u) ==
    /\ IsRequest(LineOf(i)) /\ MethodOf(LineOf(i)) = S("read_resource")
    /\ ParamsOf(LineOf(i)).k = "obj"
    /\ Get(ParamsOf(LineOf(i)), "uri", Null) = u
\* the record of the backend calls made while line n was handled, in order
LogFor(n) == SelectSeq(calls, LAMBDA c : c.src = n)

\* C11 as stated: for read_resource of zotero://collections/{collection_key}/items
\* (with a usable client) the backend's collection-items call receives the
\* value of the {collection_key} segment as its key.
C11_CollectionKeyPlaceholder ==
    \A i \in 1..Len(stdout) :
        (zot = "client"
         /\ AnswersRead(i, Uri(<<"zotero:", "", "collections", "COLL1", "items">>)))
        => LET log == LogFor(stdout[i].src)
           IN  /\ Len(log) = 1
               /\ log[1].call.op = "collection_items"
               /\ log[1].call.args.key = S("COLL1")

\* C12 as stated: read_resource of zotero://items/{item_key} (with a usable
\* client) calls the backend's item read with that key and, when the call
\* returns, answers with a contents array.
C12_ItemDetails ==
    \A i \in 1..Len(stdout) :
        (zot = "client" /\ AnswersRead(i, Uri(<<"zotero:", "", "items", "ABC123">>)))
        => LET log == LogFor(stdout[i].src)
               unit == stdout[i].unit
           IN  /\ Len(log) = 1
               /\ log[1].call.op = "item"
               /\ log[1].call.args.key = S("ABC123")
               /\ ~log[1].raised =>
                      /\ IsResult(unit) /\ unit.result.k = "obj"
                      /\ "contents" \in DOMAIN unit.result.o

\* the URIs that list_resources lists
ListedUris ==
    LET listed == HandleListResources(EmptyObj).o["resources"].a
    IN  {listed[k].o["uri"] : k \in 1..Len(listed)}
\* the result is no error mapping and has a contents array of n entries or more
HasContents(result, n) ==
    /\ result.k = "obj" /\ ~CarriesError(result)
    /\ "contents" \in DOMAIN result.o
    /\ result.o["contents"].k = "arr" /\ Len(result.o["contents"].a) >= n

C14_StaticBeforeTemplates ==
    \A i \in 1..Len(stdout) :
        (IsRequest(LineOf(i)) /\ MethodOf(LineOf(i)) = S("read_resource")) =>
            LET log == LogFor(stdout[i].src)
                top == Uri(<<"zotero:", "", "items", "top">>)
                recent == Uri(<<"zotero:", "", "items", "recent">>)
            IN  /\ Len(log) <= 1
                /\ \A u \in {top, recent} :
                      AnswersRead(i, u) =>
                        /\ Len(log) = (IF zot = "client" THEN 1 ELSE 0)
                        /\ \A k \in 1..Len(log) :
                              /\ log[k].call.op = (IF u = top THEN "top" ELSE "items")
                              /\ log[k].call.args.limit = (IF u = top THEN Num(50) ELSE Num(20))
                              /\ "key" \notin DOMAIN log[k].call.args

\* C14 witness: zotero://items/top was read with a usable client and the
\* backend was asked for the top-level items.
C14_Witness ==
    \E i \in 1..Len(stdout) :
        /\ AnswersRead(i, UriItemsTop)
        /\ Len(LogFor(stdout[i].src)) = 1
        /\ LogFor(stdout[i].src)[1].call.op = "top"

\* the response unit reports an error with this code, at top level or inside
\* its result
Reports(unit, code) ==
    \/ IsError(unit) /\ unit.error.code = code
    \/ /\ IsResult(unit) /\ CarriesError(unit.result)
       /\ unit.result.o["error"].code = code

\* C15 as stated: read_resource (with a usable client) of a URI that matches
\* no static URI and no template is answered with an error whose code is
\* -32602 and whose message carries the URI, and no backend call is made.
C15_UnmatchedUriIsResourceNotFound ==
    \A i \in 1..Len(stdout) :
        LET u == Uri(<<"zotero:", "", "tags">>)
            unit == stdout[i].unit
        IN  (zot = "client" /\ AnswersRead(i, u)) =>
                /\ IsError(unit) /\ ~IsResult(unit)
                /\ unit.error.code = -32602
                /\ unit.error.message = Message("Resource not found: ", u)
                /\ CallsFor(stdout[i].src) = {}

\* C16 as stated: a URI with one segment more or less than a template matches
\* no template: read_resource (with a usable client) reports -32602 for it
\* and makes no backend call.
C16_SegmentCountDecidesMatch ==
    \A i \in 1..Len(stdout) :
        \A u \in {Uri(<<"zotero:", "", "collections", "A", "B", "items">>),
                  Uri(<<"zotero:", "", "collections", "items">>),
                  Uri(<<"zotero:", "", "items", "A", "citation", "apa", "extra">>)} :
            (zot = "client" /\ AnswersRead(i, u)) =>
                /\ Reports(stdout[i].unit, -32602)
                /\ CallsFor(stdout[i].src) = {}

\* C17 as stated: when a backend call made for a resource or tool request
\* raises, the request is answered with an error response whose code is
\* -32000 and whose message carries the cause.
C17_BackendFailureIsErrorResponse ==
    \A j \in 1..Len(calls) :
        calls[j].raised =>
            \E i \in Answers(calls[j].src) :
                LET unit == stdout[i].unit
                IN  /\ IsError(unit) /\ ~IsResult(unit)
                    /\ unit.error.code = -32000
                    /\ unit.error.message.arg = BackendError

\* C18 as stated: when the client was not initialised, no backend call is
\* ever made and every read_resource and call_tool request is answered with
\* the error response "Zotero client not initialized" with code -32000.
C18_UnavailableBackendIsDedicatedError ==
    zot = "None" =>
        /\ calls = <<>>
        /\ \A i \in 1..Len(stdout) :
              (/\ IsRequest(LineOf(i))
               /\ MethodOf(LineOf(i)) \in {S("read_resource"), S("call_tool")})
              => LET unit == stdout[i].unit
                 IN  /\ IsError(unit) /\ ~IsResult(unit)
                     /\ unit.error.code = -32000
                     /\ unit.error.message =
                            Message("Zotero client not initialized. Check API credentials.", Null)

ListMethods == {S("list_resources"), S("list_resource_templates"), S("list_tools")}
\* one field of each descriptor of a list result, in the order listed
Listed(result, field, key) ==
    [k \in 1..Len(result.o[field].a) |-> result.o[field].a[k].o[key]]

\* C19: every list_resources, list_resource_templates and list_tools request
\* is answered with a result that lists all descriptors (three static URIs,
\* three URI templates, four tools), equal to the result of every other
\* request for the same method whatever the params, the client and the
\* requests handled before; no backend call is made for it.
C19_ListsAreUnconditional ==
    \A i \in 1..Len(stdout) :
        LET line == LineOf(i)
            unit == stdout[i].unit
        IN  (IsRequest(line) /\ MethodOf(line) \in ListMethods) =>
                /\ IsResult(unit) /\ ~IsError(unit)
                /\ CallsFor(stdout[i].src) = {}
                /\ CASE MethodOf(line) = S("list_resources") ->
                            Listed(unit.result, "resources", "uri")
                                = <<Uri(<<"zotero:", "", "collections">>),
                                    Uri(<<"zotero:", "", "items", "top">>),
                                    Uri(<<"zotero:", "", "items", "recent">>)>>
                     [] MethodOf(line) = S("list_resource_templates") ->
                            Listed(unit.result, "resourceTemplates", "uriTemplate")
                                = <<Uri(<<"zotero:", "", "collections", "{collection_key}", "items">>),
                                    Uri(<<"zotero:", "", "items", "{item_key}">>),
                                    Uri(<<"zotero:", "", "items", "{item_key}", "citation", "{style}">>)>>
                     [] OTHER ->
                            Listed(unit.result, "tools", "name")
                                = <<S("search_items"), S("get_citation"), S("add_item"),
                                    S("get_bibliography")>>
                /\ \A j \in 1..Len(stdout) :
                      (IsRequest(LineOf(j)) /\ MethodOf(LineOf(j)) = MethodOf(line))
                      => stdout[j].unit.result = unit.result

\* C19 witness: list_resources was answered twice, once with params {} and
\* once with params null, with an unusable client.
C19_Witness ==
    /\ Len(stdout) = 2 /\ zot = "None"
    /\ \A i \in 1..2 : IsRequest(LineOf(i)) /\ MethodOf(LineOf(i)) = S("list_resources")
    /\ ParamsOf(LineOf(1)) = EmptyObj /\ ParamsOf(LineOf(2)) = Null
    /\ Len(stdout[2].unit.result.o["resources"].a) = 3

\* the line is a call_tool request for add_item with item_type, title and
\* collection_key = "COLL1"
AddsToCollection(line) ==
    /\ IsRequest(line) /\ MethodOf(line) = S("call_tool")
    /\ ParamsOf(line).k = "obj"
    /\ Get(ParamsOf(line), "name", Null) = S("add_item")
    /\ LET args == Get(ParamsOf(line), "arguments", EmptyObj)
       IN  /\ args.k = "obj"
           /\ {"item_type", "title", "collection_key"} \subseteq DOMAIN args.o
           /\ args.o["collection_key"] = S("COLL1")
\* the positions in a log of the calls of one backend operation
CallsOf(log, op) == {k \in 1..Len(log) : log[k].call.op = op}

RECURSIVE Carries(_, _)
Carries(v, key) ==
    \/ v = key
    \/ CASE v.k = "obj" -> \E f \in DOMAIN v.o : Carries(v.o[f], key)
          [] v.k = "arr" -> \E k \in 1..Len(v.a) : Carries(v.a[k], key)
          [] v.k = "text" -> Carries(v.json, key)
          [] OTHER -> FALSE
\* the response unit reports the value key: in its result, or in the message
\* of its error (top-level or inside the result)
ReportsKey(unit, key) ==
    IF IsError(unit) THEN Carries(unit.error.message.arg, key)
    ELSE IF CarriesError(unit.result) THEN Carries(unit.result.o["error"].message.arg, key)
    ELSE Carries(unit.result, key)

\* C21 as stated: when add_item's create call returned a created item and the
\* collection-association call that follows raised, the response still
\* reports the key of the created item.
C21_CreatedKeyKeptOnAssociationFailure ==
    \A n \in 1..Len(received) :
        LET log == LogFor(n)
        IN  (/\ Handled(n) /\ Len(log) = 3
             /\ log[2].call.op = "create_items" /\ ~log[2].raised
             /\ log[3].call.op = "addto_collection" /\ log[3].raised)
            => \A i \in Answers(n) :
                    ReportsKey(stdout[i].unit, log[2].ret.o["success"].o["0"])

\* the line is a call_tool request for the tool `name` whose arguments hold
\* the keys `keys`
CallsTool(line, name, keys) ==
    /\ IsRequest(line) /\ MethodOf(line) = S("call_tool")
    /\ ParamsOf(line).k = "obj"
    /\ Get(ParamsOf(line), "name", Null) = S(name)
    /\ Get(ParamsOf(line), "arguments", EmptyObj).k = "obj"
    /\ keys \subseteq DOMAIN Get(ParamsOf(line), "arguments", EmptyObj).o

\* C22 as stated: call_tool (with a usable client) for update_item,
\* delete_item or create_collection with its required argument goes to the
\* backend and is answered with a content array when the backend returns;
\* it is never answered with "unknown tool" (-32601).
C22_MutatingToolsAreDispatched ==
    \A i \in 1..Len(stdout) :
        LET unit == stdout[i].unit
            log == LogFor(stdout[i].src)
        IN  (/\ zot = "client"
             /\ \/ CallsTool(LineOf(i), "update_item", {"item_key"})
                \/ CallsTool(LineOf(i), "delete_item", {"item_key"})
                \/ CallsTool(LineOf(i), "create_collection", {"name"}))
            => /\ ~Reports(unit, -32601)
               /\ Len(log) >= 1
               /\ (\A k \in 1..Len(log) : ~log[k].raised) =>
                      /\ IsResult(unit) /\ unit.result.k = "obj"
                      /\ "content" \in DOMAIN unit.result.o

\* the names of the tools that list_tools lists
RegisteredTools ==
    {S("search_items"), S("get_citation"), S("add_item"), S("get_bibliography")}

\* C23 as stated: call_tool (with a usable client) with a name that is no
\* registered tool, or with no name, is answered with an error whose code is
\* -32601, and no backend call is made.
C23_UnknownToolIsMethodNotFound ==
    \A i \in 1..Len(stdout) :
        LET line == LineOf(i)
            unit == stdout[i].unit
        IN  (/\ zot = "client"
             /\ IsRequest(line) /\ MethodOf(line) = S("call_tool")
             /\ ParamsOf(line).k = "obj"
             /\ Get(ParamsOf(line), "name", Null) \notin RegisteredTools)
            => /\ IsError(unit) /\ ~IsResult(unit)
               /\ unit.error.code = -32601
               /\ CallsFor(stdout[i].src) = {}

\* the arguments of a call_tool request
ArgsOf(line) == Get(ParamsOf(line), "arguments", EmptyObj)
\* the value the caller gave for an optional argument, or the default
GivenOr(line, key, default) ==
    IF key \in DOMAIN ArgsOf(line).o THEN ArgsOf(line).o[key] ELSE default

\* C24: with a usable client, search_items makes one backend call whose limit
\* is the limit given, or 20 when none is given; get_citation and
\* get_bibliography make one backend call whose style is the style given, or
\* "apa" when none is given.
C24_OptionalArgumentDefaults ==
    \A i \in 1..Len(stdout) :
        LET line == LineOf(i)
            log == LogFor(stdout[i].src)
        IN  zot = "client" =>
            /\ CallsTool(line, "search_items", {"query"}) =>
                  /\ Len(log) = 1
                  /\ log[1].call.args.limit = GivenOr(line, "limit", Num(20))
            /\ CallsTool(line, "get_citation", {"item_key"}) =>
                  /\ Len(log) = 1 /\ log[1].call.op = "item"
                  /\ log[1].call.args.style = GivenOr(line, "style", S("apa"))
            /\ CallsTool(line, "get_bibliography", {"item_keys"}) =>
                  /\ Len(log) = 1 /\ log[1].call.op = "bibliography"
                  /\ log[1].call.args.style = GivenOr(line, "style", S("apa"))

\* C24 witness: search_items was called without a limit and the backend was
\* asked for 20 items.
C24_Witness ==
    \E i \in 1..Len(stdout) :
        /\ CallsTool(LineOf(i), "search_items", {"query"})
        /\ "limit" \notin DOMAIN ArgsOf(LineOf(i)).o
        /\ Len(LogFor(stdout[i].src)) = 1
        /\ LogFor(stdout[i].src)[1].call.args.limit = Num(20)

\* the line is a request object whose params is a mapping (or is not given)
WellFormed(line) == IsRequest(line) /\ CanGet(ParamsOf(line))
\* the response units a server just started may give the line
FreshAnswers(line) == {Iteration(line, zot, oc, Num(0)).unit : oc \in BackendOutcomes}
\* the response unit is an error response or a result that carries an error
\* mapping
IsFailure(unit) == IsError(unit) \/ (IsResult(unit) /\ CarriesError(unit.result))

\* C25: every non-empty line whose handling has ended has its response unit,
\* whatever was answered before, and a well-formed request is answered with
\* a unit that a server just started may give it: earlier error responses
\* leave no trace in later answers.  (Units are appended to stdout and stay,
\* so it is said of the unit written last, in every state.)
C25_LoopContinuesAfterError ==
    /\ \A n \in 1..Len(received) :
          (received[n] # EmptyLine /\ Handled(n)) => Answers(n) # {}
    /\ \A i \in {Len(stdout)} \ {0} :
          WellFormed(LineOf(i)) => stdout[i].unit \in FreshAnswers(LineOf(i))

\* C25 witness: an unparseable line and a request whose params is null were
\* answered with error responses, and the well-formed read that followed was
\* answered with its contents and its own id.
C25_Witness ==
    /\ Len(stdout) = 3 /\ Len(received) = 3
    /\ ~Parses(LineOf(1)) /\ IsError(stdout[1].unit)
    /\ IsRequest(LineOf(2)) /\ ~WellFormed(LineOf(2)) /\ IsError(stdout[2].unit)
    /\ WellFormed(LineOf(3)) /\ MethodOf(LineOf(3)) = S("read_resource")
    /\ ~IsFailure(stdout[3].unit) /\ stdout[3].unit.id = Num(3)

\* C26: when a line is read, every non-empty line read before it has its
\* response unit; while a line is being handled it has no response unit yet
\* and no backend call was made for it or for a later line; the backend
\* calls are made in the order of the lines they belong to.
C26_OneRequestInFlight ==
    /\ \A n \in 1..Len(received) :
          (n < Len(received) /\ received[n] # EmptyLine) => Answers(n) # {}
    /\ pc = "handle" =>
          /\ cur = received[Len(received)]
          /\ Answers(Len(received)) = {}
          /\ \A j \in 1..Len(calls) : calls[j].src < Len(received)
    /\ \A j \in 1..Len(calls) :
          /\ Answers(calls[j].src) # {}
          /\ \A k \in j..Len(calls) : calls[j].src <= calls[k].src

\* C26 witness: a request is being handled while the next line waits on
\* stdin, after a request that went to the backend was answered.
C26_Witness ==
    /\ pc = "handle" /\ stdin # <<>>
    /\ Len(received) = 2 /\ Len(stdout) = 1
    /\ IsRequest(cur) /\ CallsFor(1) # {}

\* C27: no step changes the backend client handle: it keeps the value that
\* construction gave it (a client or None).
C27_ClientHandleNeverChanges == [][zot' = zot]_vars

\* C27 witness: with a usable client, a request was answered from the except
\* branch, a read went to the backend and failed there, and a third request
\* was answered.
C27_Witness ==
    /\ zot = "client" /\ Len(stdout) = 3
    /\ IsError(stdout[1].unit) /\ stdout[1].unit.error.code = -32000
    /\ \E j \in CallsFor(stdout[2].src) : calls[j].raised
    /\ IsResult(stdout[3].unit)

\* the backend operations that read, and those that change the library
ReadOps == {"collections", "top", "items", "collection_items", "item"}
MutatingOps == {"create_items", "addto_collection"}

\* C28: every backend call made for a read_resource request is a read, and a
\* backend call that changes the library is made only for a call_tool
\* request for add_item.
C28_ReadsNeverMutate ==
    \A j \in 1..Len(calls) :
        LET line == received[calls[j].src]
        IN  /\ MethodOf(line) = S("read_resource") => calls[j].call.op \in ReadOps
            /\ calls[j].call.op \in MutatingOps =>
                  /\ MethodOf(line) = S("call_tool")
                  /\ Get(ParamsOf(line), "name", Null) = S("add_item")

\* C28 witness: a read_resource request whose params also name the tool
\* add_item and its arguments went to the backend, with a read.
C28_Witness ==
    \E j \in 1..Len(calls) :
        LET line == received[calls[j].src]
        IN  /\ MethodOf(line) = S("read_resource")
            /\ Get(ParamsOf(line), "name", Null) = S("add_item")
            /\ calls[j].call.op = "collections"

\* the value is an array with at least one entry
NonEmptyArray(v) == v.k = "arr" /\ Len(v.a) >= 1

\* C29 as stated: every response with a result to a read_resource request has
\* a contents array, every response with a result to a call_tool request has
\* a content array, and the array is not empty.
C29_SuccessHasContent ==
    \A i \in 1..Len(stdout) :
        LET line == LineOf(i)
            unit == stdout[i].unit
        IN  (IsRequest(line) /\ IsResult(unit)) =>
            /\ MethodOf(line) = S("read_resource") =>
                  /\ unit.result.k = "obj" /\ "contents" \in DOMAIN unit.result.o
                  /\ NonEmptyArray(unit.result.o["contents"])
            /\ MethodOf(line) = S("call_tool") =>
                  /\ unit.result.k = "obj" /\ "content" \in DOMAIN unit.result.o
                  /\ NonEmptyArray(unit.result.o["content"])

\* C30 as stated: read_resource (with a usable client) whose params hold no
\* uri is answered with error code -32602, and no backend call is made.
C30_MissingUriIsInvalidParams ==
    \A i \in 1..Len(stdout) :
        LET line == LineOf(i)
        IN  (/\ zot = "client"
             /\ IsRequest(line) /\ MethodOf(line) = S("read_resource")
             /\ ParamsOf(line).k = "obj" /\ "uri" \notin DOMAIN ParamsOf(line).o)
            => /\ Reports(stdout[i].unit, -32602)
               /\ CallsFor(stdout[i].src) = {}

\* C31 as stated: a call_tool request (with a usable client) whose required
\* argument is present but ill-typed (search_items with a query that is no
\* string, get_bibliography with item_keys that is no array) is answered with
\* error code -32602, and no backend call is made.
C31_IllTypedArgumentIsInvalidParams ==
    \A i \in 1..Len(stdout) :
        LET line == LineOf(i)
        IN  (/\ zot = "client"
             /\ \/ /\ CallsTool(line, "search_items", {"query"})
                   /\ ArgsOf(line).o["query"].k # "str"
                \/ /\ CallsTool(line, "get_bibliography", {"item_keys"})
                   /\ ArgsOf(line).o["item_keys"].k # "arr")
            => /\ Reports(stdout[i].unit, -32602)
               /\ CallsFor(stdout[i].src) = {}

\* the error mapping of a response unit that reports an error, at top level
\* or inside its result
ErrorOf(unit) == IF IsError(unit) THEN unit.error ELSE unit.result.o["error"]
\* the argument keys that the text of a "missing parameter" message names
NamedKeys(text) ==
    CASE text = "Missing required parameter: query" -> {"query"}
      [] text = "Missing required parameter: item_key" -> {"item_key"}
      [] text = "Missing required parameters: item_type and title" -> {"item_type", "title"}
      [] text = "Missing required parameter: item_keys" -> {"item_keys"}
      [] OTHER -> {}

\* C32 as stated: the -32602 error for add_item (with a usable client) names
\* exactly the required keys that the arguments lack: title and not
\* item_type when only title is missing, and the other way round.
C32_ErrorNamesMissingKeys ==
    \A i \in 1..Len(stdout) :
        LET line == LineOf(i)
            unit == stdout[i].unit
        IN  (/\ zot = "client"
             /\ CallsTool(line, "add_item", {})
             /\ {"item_type", "title"} \ DOMAIN ArgsOf(line).o # {})
            => /\ Reports(unit, -32602)
               /\ NamedKeys(ErrorOf(unit).message.text)
                      = {"item_type", "title"} \ DOMAIN ArgsOf(line).o

\* C33: search_items (with a usable client) whose query is the empty string
\* passes validation: one backend search is made with that query, and when
\* it returns, the answer is a content array of one item whose text is the
\* JSON of an object with the keys query and results.
C33_EmptyQueryPassesValidation ==
    \A i \in 1..Len(stdout) :
        LET line == LineOf(i)
            unit == stdout[i].unit
            log == LogFor(stdout[i].src)
        IN  (/\ zot = "client"
             /\ CallsTool(line, "search_items", {"query"})
             /\ ArgsOf(line).o["query"] = Str(<<>>))
            => /\ ~Reports(unit, -32602)
               /\ Len(log) = 1 /\ log[1].call.op \in {"items", "collection_items_top"}
               /\ log[1].call.args.q = Str(<<>>)
               /\ ~log[1].raised =>
                     /\ IsResult(unit) /\ "content" \in DOMAIN unit.result.o
                     /\ Len(unit.result.o["content"].a) = 1
                     /\ LET text == unit.result.o["content"].a[1].o["text"]
                        IN  /\ text.k = "text" /\ text.json.k = "obj"
                            /\ DOMAIN text.json.o = {"query", "results"}
                            /\ text.json.o["results"] = log[1].ret

\* C33 witness: search_items with query "" went to the backend, which
\* returned, and the answer is a content array.
C33_Witness ==
    \E i \in 1..Len(stdout) :
        /\ CallsTool(LineOf(i), "search_items", {"query"})
        /\ ArgsOf(LineOf(i)).o["query"] = Str(<<>>)
        /\ Len(LogFor(stdout[i].src)) = 1 /\ ~LogFor(stdout[i].src)[1].raised
        /\ ~IsFailure(stdout[i].unit)

\* C34: for add_item with item_type and title (and a usable client), the
\* association call is made exactly when collection_key is given, not null
\* and not empty, and the create call returned a result that reports a
\* created item; and when no backend call raised, the content text is the
\* JSON of the result the create call returned.
C34_AssociationOnlyOnSuccess ==
    \A n \in 1..Len(received) :
        (zot = "client" /\ Handled(n) /\ CallsTool(received[n], "add_item", {"item_type", "title"}))
        => LET log == LogFor(n)
               key == GivenOr(received[n], "collection_key", Null)
               creates == CallsOf(log, "create_items")
               created == \E c \in creates :
                              ~log[c].raised /\ log[c].ret.o["success"] # EmptyObj
           IN  /\ CallsOf(log, "addto_collection") # {}
                      <=> (key \notin {Null, Str(<<>>)} /\ created)
               /\ (\A k \in 1..Len(log) : ~log[k].raised) =>
                      \A i \in Answers(n) :
                          /\ IsResult(stdout[i].unit)
                          /\ \E c \in creates :
                                stdout[i].unit.result = Content(JsonDumps(log[c].ret))

\* C34 witness: add_item with the empty collection_key was handled, the
\* create call returned a created item, and no third backend call was made.
C34_Witness ==
    \E n \in 1..Len(received) :
        /\ Handled(n) /\ CallsTool(received[n], "add_item", {"item_type", "title", "collection_key"})
        /\ ArgsOf(received[n]).o["collection_key"] = Str(<<>>)
        /\ Len(LogFor(n)) = 2 /\ ~LogFor(n)[2].raised
        /\ LogFor(n)[2].ret.o["success"] # EmptyObj

\* the backend search call of a valid search_items request is
\* collection-scoped exactly when its collection_key is none of `none`
SearchScopedUnless(none) ==
    \A i \in 1..Len(stdout) :
        LET line == LineOf(i)
            log == LogFor(stdout[i].src)
            key == GivenOr(line, "collection_key", Null)
        IN  (zot = "client" /\ CallsTool(line, "search_items", {"query"})) =>
               /\ Len(log) = 1
               /\ IF key \in none
                  THEN log[1].call.op = "items"
                  ELSE log[1].call.op = "collection_items_top" /\ log[1].call.args.key = key

\* C35 as stated: search_items makes exactly one backend search call, the
\* collection-scoped one when collection_key is given and not null, the
\* library-wide one otherwise.
C35_ScopedWhenKeyNotNull == SearchScopedUnless({Null})

\* C35, amended: search_items makes exactly one backend search call, the
\* collection-scoped one when collection_key is given and is neither null
\* nor empty, the library-wide one otherwise.
C35_ScopedWhenKeyNotEmpty == SearchScopedUnless({Null, Str(<<>>)})

\* C35 witness: search_items with collection_key "" made the library-wide
\* search.
C35_Witness ==
    \E i \in 1..Len(stdout) :
        /\ CallsTool(LineOf(i), "search_items", {"query", "collection_key"})
        /\ ArgsOf(LineOf(i)).o["collection_key"] = Str(<<>>)
        /\ Len(LogFor(stdout[i].src)) = 1
        /\ LogFor(stdout[i].src)[1].call.op = "items"

\* the tool names that list_tools returns
ListedTools ==
    LET tools == HandleListTools(EmptyObj).o["tools"].a
    IN  {tools[k].o["name"] : k \in 1..Len(tools)}
\* the URI templates that list_resource_templates returns
ListedTemplates ==
    LET templates == HandleListResourceTemplates(EmptyObj).o["resourceTemplates"].a
    IN  {templates[k].o["uriTemplate"] : k \in 1..Len(templates)}
\* the placeholders of the templates and values to put in their place
Placeholders == {"{collection_key}", "{item_key}", "{style}"}
PlaceholderValues == {"COLL1", "ABC123", "apa"}
\* the URIs a template stands for, over these values
Instantiations(template) ==
    {Str([k \in 1..Len(template.s) |->
            IF template.s[k] \in Placeholders THEN val[template.s[k]] ELSE template.s[k]])
        : val \in [Placeholders -> PlaceholderValues]}
\* read_resource has a branch for the URI: with a usable client and a backend
\* that returns, the handler does not answer "resource not found"
Resolves(uri) ==
    LET h == HandleReadResource(Params([uri |-> uri]), "client", [raiseAt |-> 0, created |-> TRUE])
    IN  ~h.raised /\ ~CarriesError(h.result)

\* C36 as stated: call_tool (with a usable client) answers "unknown tool"
\* (-32601) exactly for the names that list_tools does not return, every URI
\* that list_resources returns is resolved by read_resource, and every
\* template that list_resource_templates returns is resolved for at least
\* one instantiation.
C36_RegistriesMatchDispatch ==
    /\ \A i \in 1..Len(stdout) :
          LET line == LineOf(i)
          IN  (/\ zot = "client"
               /\ IsRequest(line) /\ MethodOf(line) = S("call_tool")
               /\ ParamsOf(line).k = "obj")
              => (Reports(stdout[i].unit, -32601)
                    <=> Get(ParamsOf(line), "name", Null) \notin ListedTools)
    /\ \A u \in ListedUris : Resolves(u)
    /\ \A template \in ListedTemplates : \E u \in Instantiations(template) : Resolves(u)

\* the step in which run() reads a line that is empty once stripped
ReadsEmptyLine ==
    /\ pc = "read" /\ stdin # <<>>
    /\ Strip(Head(stdin)) = EmptyLine
    /\ stdin' = Tail(stdin)

\* C37: a line that is empty or whitespace only is never answered and no
\* backend call is made for it, and the step that reads it leaves the output,
\* the call log, the stored last id and the backend handle as they were and
\* the loop at the point where it reads the next line.
C37_EmptyLineIsSkipped ==
    /\ [](\A n \in 1..Len(received) :
            received[n] = EmptyLine => Answers(n) = {} /\ CallsFor(n) = {})
    /\ [][ReadsEmptyLine => /\ UNCHANGED <<stdout, calls, jsonrpc_id, zot>>
                            /\ pc' = "read" /\ cur' = cur]_vars
\* a whitespace-only line was read first, nothing was printed and no call
\* made for it, and the request written after it was answered with a result
C37_Witness ==
    /\ Len(received) = 2
    /\ received[1] = EmptyLine /\ Answers(1) = {} /\ CallsFor(1) = {}
    /\ Answers(2) # {} /\ IsResult(stdout[1].unit)

\* C38: at most one server process started by the client is alive, and it is
\* the one the client holds; a process is started only when none is held or
\* the held one has exited; stop_server on a live process ends it and clears
\* the handle; and when start_server has returned inside _send_request,
\* before the request is written, the client holds a live process.
C38_AtMostOneServerAlive ==
    /\ [](Cardinality(running) <= 1 /\ running \subseteq {server_process})
    /\ [][nspawned' # nspawned
            => (server_process = NoProcess \/ server_process \notin running)]_vars
    /\ [][(ClientStops /\ server_process \in running)
            => (server_process' = NoProcess /\ running' = {})]_vars
    /\ [][(client_pc = "idle" /\ client_pc' = "write")
            => (server_process' # NoProcess /\ server_process' \in running')]_vars
\* the first process has ended, a second one was started in its place by
\* _send_request, the request was written to it while it was alive, and it is
\* the only process alive
C38_Witness ==
    /\ nspawned = 2
    /\ server_process = 2 /\ running = {2}
    /\ written # <<>>
    /\ written[Len(written)] = [to |-> 2, alive |-> TRUE]

\* C39 as stated: whenever the server answers a request with an error outcome
\* (an error mapping made by a handler or by the dispatcher: resource not
\* found, unknown tool, missing argument, backend unavailable, backend
\* failure), the client's _send_request raises on that response instead of
\* returning a result.
C39_ClientRaisesOnServerError ==
    \A i \in 1..Len(stdout) :
        (IsRequest(LineOf(i)) /\ IsFailure(stdout[i].unit))
            => ClientReceives(stdout[i].unit).raised

====
